---- MODULE Spec2Model ----
(***************************************************************************)
(* LocalConsensus (src/src/kudu/consensus/local_consensus.cc): the         *)
(* single-node consensus engine.  Caller threads run Start, Replicate,     *)
(* Commit and PersistQuorum step by step, and role, Quorum, Update,        *)
(* RequestVote and Shutdown in one step each; lock_ is the simple_spinlock *)
(* that guards next_op_id_index_, the Log::Reserve call and the committed  *)
(* quorum of the ConsensusMetadata.  Two workloads are explored: a few     *)
(* calls from concurrent callers (Spec), and a longer run of Start,        *)
(* Replicate and Commit calls from one caller (SpecSerial).                *)
(***************************************************************************)
EXTENDS Integers, Sequences, FiniteSets

(* ------------------------------ bounds -------------------------------- *)
NumThreads == 2
NumRounds == 2
MaxSeqno == 1
MaxLastIndex == 1
MaxCalls == 3
NumSerialRounds == 4
MaxSerialCalls == 5

Threads == 1 .. NumThreads
\* Every ConsensusRound object of either workload.
Rounds == 1 .. (IF NumRounds > NumSerialRounds THEN NumRounds ELSE NumSerialRounds)

VARIABLES
    serial,              \* workload: TRUE when one caller makes its calls one after another
    dcheck_is_on,        \* build: TRUE when DCHECK_* are compiled in (no NDEBUG)
    state_,              \* LocalConsensus::state_
    next_op_id_index_,   \* LocalConsensus::next_op_id_index_
    lock_,               \* LocalConsensus::lock_ : the set of threads holding it
    cmeta_,              \* cmeta_->pb().committed_quorum(), in memory
    disk,                \* the committed quorum as last flushed by cmeta_->Flush()
    flush_calls,         \* number of cmeta_->Flush() calls made
    log_,                \* the Reserve calls the Log has observed, in order
    appends,             \* the AsyncAppend requests the Log has accepted, in order
    submitted,           \* quorums handed to txn_factory_->SubmitConsensusChangeConfig
    rounds,              \* the ConsensusRound objects
    thr,                 \* per caller thread: position in its current call, locals
    ret,                 \* the most recent return: which call, on which round, what status
    crashed,             \* "none", or the fatal check that ended the process
    assigned,            \* history: op-id assignments in the order they were made
    sizeOrder,           \* history: rounds in the order Replicate pre-cached ByteSize
    durable,             \* number of accepted appends whose callback the Log has run
    shutdowns,           \* number of Shutdown calls made so far
    calls,               \* number of calls other than Start made so far
    start_passed,        \* history: Start calls that passed CHECK_EQ (0, 1, 2 for more)
    boot_index           \* history: info.last_id.index() of the Start that set the counter

vars == << serial, dcheck_is_on, state_, next_op_id_index_, lock_, cmeta_, disk, flush_calls,
           log_, appends, submitted, rounds, thr, ret, crashed, assigned, sizeOrder, durable,
           shutdowns, calls, start_passed, boot_index >>

(* ------------------------- values and helpers -------------------------- *)

\* The lifecycle enum: kInitializing < kConfiguring < kRunning.
StateRank(s) ==
    CASE s = "kInitializing" -> 0
      [] s = "kConfiguring" -> 1
      [] s = "kRunning" -> 2

\* QuorumPB: locality flag, peers (each a role), sequence number.
PeerLists == { <<>>, << "LEADER" >>, << "FOLLOWER" >> }

Quorums == [ local : BOOLEAN, peers : PeerLists, seqno : 0 .. MaxSeqno ]

\* The quorum a ConsensusMetadata can hold when the engine is constructed:
\* a well-formed one, one with no peer, one that is not local.
InitialQuorums ==
    { [ local |-> TRUE, peers |-> << "FOLLOWER" >>, seqno |-> 0 ],
      [ local |-> TRUE, peers |-> <<>>, seqno |-> 0 ],
      [ local |-> FALSE, peers |-> << "FOLLOWER" >>, seqno |-> 0 ] }

NoQuorum == [ local |-> FALSE, peers |-> <<>>, seqno |-> 0 ]

\* VerifyQuorum for a single-node engine: local, exactly one peer.
VerifyQuorum(q) == q.local /\ Len(q.peers) = 1

\* The quorum Start submits: a copy, peer 0 forced to LEADER, seqno + 1.
StartQuorum(q) ==
    [ q EXCEPT !.peers = [ q.peers EXCEPT ![1] = "LEADER" ], !.seqno = q.seqno + 1 ]

\* A thread that is in no call.
Idle ==
    [ pc |-> "idle", op |-> "none", round |-> 0, q |-> NoQuorum, info |-> 0,
      clbk |-> "none" ]

\* A thread entering call `op` at position `pc`.
Enter(op, pc, r, q, n) ==
    [ Idle EXCEPT !.pc = pc, !.op = op, !.round = r, !.q = q, !.info = n ]

\* Call `op` (on round r, 0 for none) handing `status` back to its caller.
Returned(op, r, status) ==
    [ op |-> op, round |-> r, status |-> status, value |-> NoQuorum ]

\* A fresh ConsensusRound: op id not yet set, both callbacks held by the round.
\* after_commits is history: the rounds whose Commit call had been issued when
\* this round was handed to Replicate.
NewRound ==
    [ has_term |-> FALSE, term |-> 0, has_index |-> FALSE, index |-> 0,
      replicate_callback |-> TRUE, commit_callback |-> TRUE,
      replicate_called |-> FALSE, scheduled |-> FALSE, after_commits |-> {} ]

Alive == crashed = "none"

InOp(t, op) == thr[t].pc # "idle" /\ thr[t].op = op

\* Caller threads are interchangeable, and so are fresh rounds: a new call is
\* made on the first idle thread, and Replicate is given the first fresh round.
FirstIdle(t) ==
    /\ thr[t].pc = "idle" /\ \A u \in Threads : u < t => thr[u].pc # "idle"
    /\ serial => t = 1

\* The calls and rounds a workload may use: few for concurrent callers, more
\* for the single caller.
CallBudget == IF serial THEN MaxSerialCalls ELSE MaxCalls

RoundBudget == IF serial THEN NumSerialRounds ELSE NumRounds

FirstFresh(r) ==
    /\ r <= RoundBudget
    /\ ~rounds[r].replicate_called /\ \A x \in Rounds : x < r => rounds[x].replicate_called

\* Fault: the lock_guard does not exclude other holders.
CanAcquireUnguarded(t) == TRUE

\* boost::lock_guard<simple_spinlock> can be constructed: the lock is free.
CanAcquire(t) == lock_ = {}

\* Fault: the lock_guard is not scoped, the lock stays held.
ReleaseForgotten(t) == lock_

\* The lock_guard goes out of scope.
Release(t) == lock_ \ { t }

(* ------------------------------ Init ----------------------------------- *)

\* The engine as the constructor leaves it (lines 25-39), the build, the rounds.
Constructed ==
    /\ dcheck_is_on \in BOOLEAN
    /\ state_ = "kInitializing"
    /\ next_op_id_index_ = -1
    /\ lock_ = {}
    /\ cmeta_ \in InitialQuorums
    /\ disk = cmeta_
    /\ flush_calls = 0
    /\ log_ = <<>>
    /\ appends = <<>>
    /\ submitted = <<>>
    /\ rounds = [ r \in Rounds |-> NewRound ]
    /\ thr = [ t \in Threads |-> Idle ]
    /\ ret = Returned("none", 0, "none")
    /\ crashed = "none"
    /\ assigned = <<>>
    /\ sizeOrder = <<>>
    /\ durable = 0
    /\ shutdowns = 0
    /\ calls = 0
    /\ start_passed = 0
    /\ boot_index = 0

\* Concurrent callers.
Init == serial = FALSE /\ Constructed

\* One caller, its calls one after another.
InitSerial == serial = TRUE /\ Constructed
(* ------------------------------ Start ---------------------------------- *)

\* Fault: Start does not check the lifecycle state.
StartPreUnchecked == TRUE

\* CHECK_EQ(state_, kInitializing)
StartPre == state_ = "kInitializing"

\* Fault: the counter starts at the last known index itself.
FirstIndexNoSuccessor(last_index) == last_index

\* Line 51: next_op_id_index_ = info.last_id.index() + 1.
FirstIndex(last_index) == last_index + 1

\* Line 42.  Start is a lifecycle call: its owner issues one Start at a time.
StartCall(t, n) ==
    /\ Alive /\ FirstIdle(t)
    /\ \A u \in Threads : ~InOp(u, "Start")
    /\ IF StartPre
       THEN /\ thr' = [ thr EXCEPT ![t] = Enter("Start", "start_lock", 0, NoQuorum, n) ]
            /\ start_passed' = IF start_passed < 2 THEN start_passed + 1 ELSE start_passed
            /\ crashed' = crashed
       ELSE /\ crashed' = "CHECK_EQ(state_, kInitializing)"
            /\ UNCHANGED << thr, start_passed >>
    /\ UNCHANGED << serial, dcheck_is_on, state_, next_op_id_index_, lock_, cmeta_, disk,
                    flush_calls, log_, appends, submitted, rounds, ret, assigned,
                    sizeOrder, durable, shutdowns, calls, boot_index >>

\* Line 44: the lock_guard, held until Start returns.
StartAcquire(t) ==
    /\ Alive /\ thr[t].pc = "start_lock"
    /\ CanAcquire(t)
    /\ lock_' = lock_ \cup { t }
    /\ thr' = [ thr EXCEPT ![t].pc = "start_verify" ]
    /\ UNCHANGED << serial, dcheck_is_on, state_, next_op_id_index_, cmeta_, disk,
                    flush_calls, log_, appends, submitted, rounds, ret, crashed, assigned,
                    sizeOrder, durable, shutdowns, calls, start_passed, boot_index >>

\* Fault: state_ is left to be set once the submission has succeeded.
StateLeftForAfterSubmit(s) == s

\* Line 58: state_ = kRunning, ahead of SubmitConsensusChangeConfig.
StateAtSubmit(s) == "kRunning"

\* Lines 46-58: CHECK(local), VerifyQuorum, the counter, state_ = kRunning.
StartVerify(t) ==
    /\ Alive /\ thr[t].pc = "start_verify"
    /\ IF ~cmeta_.local
       THEN /\ crashed' = "CHECK(initial_quorum.local())"
            /\ UNCHANGED << thr, ret, lock_, next_op_id_index_, state_, boot_index >>
       ELSE IF ~VerifyQuorum(cmeta_)
       THEN /\ thr' = [ thr EXCEPT ![t] = Idle ]
            /\ ret' = Returned("Start", 0, "InvalidQuorum")
            /\ lock_' = Release(t)
            /\ UNCHANGED << crashed, next_op_id_index_, state_, boot_index >>
       ELSE /\ next_op_id_index_' = FirstIndex(thr[t].info)
            /\ boot_index' = thr[t].info
            /\ state_' = StateAtSubmit(state_)
            /\ thr' = [ thr EXCEPT ![t].pc = "start_submit" ]
            /\ UNCHANGED << crashed, lock_, ret >>
    /\ UNCHANGED << serial, dcheck_is_on, cmeta_, disk, flush_calls, log_, appends,
                    submitted, rounds, assigned, sizeOrder, durable, shutdowns, calls,
                    start_passed >>

\* Lines 53-68: SubmitConsensusChangeConfig(new_quorum, null callback); its
\* status is Start's.
StartSubmit(t, ok) ==
    /\ Alive /\ thr[t].pc = "start_submit"
    /\ submitted' = Append(submitted, StartQuorum(cmeta_))
    /\ thr' = [ thr EXCEPT ![t] = Idle ]
    /\ ret' = Returned("Start", 0, IF ok THEN "OK" ELSE "SubmitError")
    /\ lock_' = Release(t)
    /\ UNCHANGED << serial, dcheck_is_on, state_, next_op_id_index_, cmeta_, disk,
                    flush_calls, log_, appends, rounds, crashed, assigned, sizeOrder,
                    durable, shutdowns, calls, start_passed, boot_index >>

(* ----------------------------- Replicate ------------------------------- *)

\* DCHECK_GE(state_, kConfiguring): enforced only when DCHECKs are compiled in.
ReplicatePre == dcheck_is_on => StateRank(state_) >= StateRank("kConfiguring")

\* Fault: the counter is read but not advanced.
IncrementIndexStuck(i) == i

\* next_op_id_index_++ : the value the counter holds after the assignment.
IncrementIndex(i) == i + 1

\* The rounds on which a Commit call has been issued: the call took the commit
\* callback out of the round.
CommitIssued == { x \in Rounds : ~rounds[x].commit_callback }

\* Lines 72-81: the precondition, cur_op_id->set_term(0), ByteSize outside the
\* lock.  A round is handed to Replicate once, before its op id is assigned.
ReplicateCall(t, r) ==
    /\ Alive /\ FirstIdle(t)
    /\ FirstFresh(r)
    /\ calls < CallBudget
    /\ calls' = calls + 1
    /\ IF ReplicatePre
       THEN /\ rounds' = [ rounds EXCEPT ![r].replicate_called = TRUE,
                                         ![r].has_term = TRUE, ![r].term = 0,
                                         ![r].after_commits = CommitIssued ]
            /\ sizeOrder' = Append(sizeOrder, r)
            /\ thr' = [ thr EXCEPT ![t] = Enter("Replicate", "rep_lock", r, NoQuorum, 0) ]
            /\ crashed' = crashed
       ELSE /\ crashed' = "DCHECK_GE(state_, kConfiguring)"
            /\ UNCHANGED << rounds, thr, sizeOrder >>
    /\ UNCHANGED << serial, dcheck_is_on, state_, next_op_id_index_, lock_, cmeta_, disk,
                    flush_calls, log_, appends, submitted, ret, assigned, durable,
                    shutdowns, start_passed, boot_index >>

\* Line 85: the lock_guard.
ReplicateAcquire(t) ==
    /\ Alive /\ thr[t].pc = "rep_lock"
    /\ CanAcquire(t)
    /\ lock_' = lock_ \cup { t }
    /\ thr' = [ thr EXCEPT ![t].pc = "rep_assign" ]
    /\ UNCHANGED << serial, dcheck_is_on, state_, next_op_id_index_, cmeta_, disk,
                    flush_calls, log_, appends, submitted, rounds, ret, crashed, assigned,
                    sizeOrder, durable, shutdowns, calls, start_passed, boot_index >>

\* Line 88: cur_op_id->set_index(next_op_id_index_++).
ReplicateAssign(t) ==
    /\ Alive /\ thr[t].pc = "rep_assign"
    /\ rounds' = [ rounds EXCEPT ![thr[t].round].has_index = TRUE,
                                 ![thr[t].round].index = next_op_id_index_ ]
    /\ next_op_id_index_' = IncrementIndex(next_op_id_index_)
    /\ assigned' = Append(assigned, [ round |-> thr[t].round, index |-> next_op_id_index_,
                                      term |-> rounds[thr[t].round].term,
                                      started |-> state_ = "kRunning" ])
    /\ thr' = [ thr EXCEPT ![t].pc = "rep_reserve" ]
    /\ UNCHANGED << serial, dcheck_is_on, state_, lock_, cmeta_, disk, flush_calls, log_,
                    appends, submitted, ret, crashed, sizeOrder, durable, shutdowns, calls,
                    start_passed, boot_index >>

\* Lines 92-96: log_->Reserve(batch); the lock_guard's scope ends either way.
ReplicateReserve(t, ok) ==
    /\ Alive /\ thr[t].pc = "rep_reserve"
    /\ log_' = Append(log_, [ op |-> "REPLICATE", round |-> thr[t].round,
                              index |-> rounds[thr[t].round].index, ok |-> ok,
                              started |-> state_ = "kRunning", locked |-> t \in lock_ ])
    /\ lock_' = Release(t)
    /\ thr' = [ thr EXCEPT ![t] = IF ok THEN [ thr[t] EXCEPT !.pc = "rep_append" ] ELSE Idle ]
    /\ ret' = IF ok THEN ret ELSE Returned("Replicate", thr[t].round, "LogError")
    /\ UNCHANGED << serial, dcheck_is_on, state_, next_op_id_index_, cmeta_, disk,
                    flush_calls, appends, submitted, rounds, crashed, assigned, sizeOrder,
                    durable, shutdowns, calls, start_passed, boot_index >>

\* Fault: Replicate takes the callback out of the round.
RoundReleasesReplicateCallback(rnd) == [ rnd EXCEPT !.replicate_callback = FALSE ]

\* context->replicate_callback(): an accessor; the round keeps its callback.
RoundAfterReplicateHandOff(rnd) == rnd

\* Lines 100-102: log_->AsyncAppend(batch, replicate_callback()->AsStatusCallback()).
ReplicateAppend(t, ok) ==
    /\ Alive /\ thr[t].pc = "rep_append"
    /\ rounds' = [ rounds EXCEPT ![thr[t].round] =
                     [ RoundAfterReplicateHandOff(rounds[thr[t].round])
                         EXCEPT !.scheduled = ok ] ]
    /\ appends' = IF ok
                  THEN Append(appends, [ op |-> "REPLICATE", round |-> thr[t].round,
                                         clbk |-> "replicate", locked |-> t \in lock_ ])
                  ELSE appends
    /\ thr' = [ thr EXCEPT ![t] = Idle ]
    /\ ret' = Returned("Replicate", thr[t].round, IF ok THEN "OK" ELSE "LogError")
    /\ UNCHANGED << serial, dcheck_is_on, state_, next_op_id_index_, lock_, cmeta_, disk,
                    flush_calls, log_, submitted, crashed, assigned, sizeOrder, durable,
                    shutdowns, calls, start_passed, boot_index >>

(* ------------------------------ Commit --------------------------------- *)

\* round->commit_op(): the round holds a COMMIT operation once its REPLICATE has
\* been durably scheduled (Replicate returned OK).
commit_op(r) == rounds[r].scheduled

\* Fault: Commit goes on without a commit operation.
CommitPreUnchecked(r) == TRUE

\* DCHECK_NOTNULL(round->commit_op()) and the uses of commit_op that follow.
CommitPre(r) == commit_op(r)

\* round->release_commit_callback(&commit_clbk): the round gives its callback up.
release_commit_callback(rnd) == [ rnd EXCEPT !.commit_callback = FALSE ]

\* Fault: Commit reads the callback and leaves it in the round.
RoundKeepsCommitCallback(rnd) == rnd

\* Line 133: Commit releases the callback from the round into commit_clbk.
RoundAfterCommitCall(rnd) == release_commit_callback(rnd)

\* Lines 122-137: the precondition, release of the commit callback into the
\* local commit_clbk, ByteSize outside the lock.  One caller at a time per round.
CommitCall(t, r) ==
    /\ Alive /\ FirstIdle(t)
    /\ r <= RoundBudget
    /\ \A u \in Threads : thr[u].pc = "idle" \/ thr[u].round # r
    /\ calls < CallBudget
    /\ calls' = calls + 1
    /\ IF CommitPre(r)
       THEN /\ thr' = [ thr EXCEPT ![t] =
                          [ Enter("Commit", "com_lock", r, NoQuorum, 0) EXCEPT
                              !.clbk = IF rounds[r].commit_callback THEN "commit"
                                       ELSE "null" ] ]
            /\ rounds' = [ rounds EXCEPT ![r] = RoundAfterCommitCall(rounds[r]) ]
            /\ crashed' = crashed
       ELSE /\ crashed' = IF dcheck_is_on THEN "DCHECK_NOTNULL(round->commit_op())"
                          ELSE "null commit_op dereferenced"
            /\ UNCHANGED << thr, rounds >>
    /\ UNCHANGED << serial, dcheck_is_on, state_, next_op_id_index_, lock_, cmeta_, disk,
                    flush_calls, log_, appends, submitted, ret, assigned, sizeOrder,
                    durable, shutdowns, start_passed, boot_index >>

\* Fault: a Commit that fails puts the callback it holds back into the round.
RoundRestoredOnFailure(rnd, clbk, accepted) ==
    IF accepted THEN rnd ELSE [ rnd EXCEPT !.commit_callback = (clbk = "commit") ]

\* Lines 144, 149-151: every return lets the local commit_clbk go out of scope;
\* nothing is given back to the round.
RoundAfterCommitReturn(rnd, clbk, accepted) == rnd

\* Line 139: the lock_guard.
CommitAcquire(t) ==
    /\ Alive /\ thr[t].pc = "com_lock"
    /\ CanAcquire(t)
    /\ lock_' = lock_ \cup { t }
    /\ thr' = [ thr EXCEPT ![t].pc = "com_reserve" ]
    /\ UNCHANGED << serial, dcheck_is_on, state_, next_op_id_index_, cmeta_, disk,
                    flush_calls, log_, appends, submitted, rounds, ret, crashed, assigned,
                    sizeOrder, durable, shutdowns, calls, start_passed, boot_index >>

\* Lines 141-145: log_->Reserve(batch); the lock_guard's scope ends either way.
CommitReserve(t, ok) ==
    /\ Alive /\ thr[t].pc = "com_reserve"
    /\ log_' = Append(log_, [ op |-> "COMMIT", round |-> thr[t].round,
                              index |-> rounds[thr[t].round].index, ok |-> ok,
                              started |-> state_ = "kRunning", locked |-> t \in lock_ ])
    /\ lock_' = Release(t)
    /\ thr' = [ thr EXCEPT ![t] = IF ok THEN [ thr[t] EXCEPT !.pc = "com_append" ] ELSE Idle ]
    /\ ret' = IF ok THEN ret ELSE Returned("Commit", thr[t].round, "LogError")
    /\ rounds' = IF ok THEN rounds
                 ELSE [ rounds EXCEPT ![thr[t].round] =
                          RoundAfterCommitReturn(@, thr[t].clbk, FALSE) ]
    /\ UNCHANGED << serial, dcheck_is_on, state_, next_op_id_index_, cmeta_, disk,
                    flush_calls, appends, submitted, crashed, assigned, sizeOrder, durable,
                    shutdowns, calls, start_passed, boot_index >>

\* Lines 149-151: log_->AsyncAppend(batch, commit_clbk->AsStatusCallback()).
\* With an empty commit_clbk the dereference is undefined: the call faults
\* (segv), or goes on with a callback bound to no object.
CommitAppend(t, ok, segv) ==
    /\ Alive /\ thr[t].pc = "com_append"
    /\ IF thr[t].clbk = "null" /\ segv
       THEN /\ crashed' = "null commit_clbk dereferenced"
            /\ UNCHANGED << appends, thr, ret, rounds >>
       ELSE /\ appends' = IF ok
                          THEN Append(appends, [ op |-> "COMMIT", round |-> thr[t].round,
                                                 clbk |-> thr[t].clbk,
                                                 locked |-> t \in lock_ ])
                          ELSE appends
            /\ thr' = [ thr EXCEPT ![t] = Idle ]
            /\ ret' = Returned("Commit", thr[t].round, IF ok THEN "OK" ELSE "LogError")
            /\ rounds' = [ rounds EXCEPT ![thr[t].round] =
                             RoundAfterCommitReturn(@, thr[t].clbk, ok) ]
            /\ crashed' = crashed
    /\ UNCHANGED << serial, dcheck_is_on, state_, next_op_id_index_, lock_, cmeta_, disk,
                    flush_calls, log_, submitted, assigned, sizeOrder, durable, shutdowns,
                    calls, start_passed, boot_index >>

(* --------------------------- PersistQuorum ------------------------------ *)

\* Fault: CHECK_LE in place of CHECK_LT.
SeqnoNotDecreasing(old, new) == old.seqno <= new.seqno

\* CHECK_LT(cmeta_->pb().committed_quorum().seqno(), quorum.seqno())
SeqnoMonotonic(old, new) == old.seqno < new.seqno

\* Fault: PersistQuorum does not validate its argument.
PersistVerifySkipped(q) == TRUE

\* Line 160: RETURN_NOT_OK_PREPEND(VerifyQuorum(quorum), ...).
PersistVerify(q) == VerifyQuorum(q)

\* Lines 160-162: VerifyQuorum(quorum), before the lock is taken.
PersistCall(t, q) ==
    /\ Alive /\ FirstIdle(t)
    /\ calls < CallBudget
    /\ calls' = calls + 1
    /\ thr' = [ thr EXCEPT ![t] =
                  IF PersistVerify(q) THEN Enter("PersistQuorum", "pq_lock", 0, q, 0)
                  ELSE Idle ]
    /\ ret' = IF PersistVerify(q) THEN ret ELSE Returned("PersistQuorum", 0, "InvalidQuorum")
    /\ UNCHANGED << serial, dcheck_is_on, state_, next_op_id_index_, lock_, cmeta_, disk,
                    flush_calls, log_, appends, submitted, rounds, crashed, assigned,
                    sizeOrder, durable, shutdowns, start_passed, boot_index >>

\* Line 163: the lock_guard, held until PersistQuorum returns.
PersistAcquire(t) ==
    /\ Alive /\ thr[t].pc = "pq_lock"
    /\ CanAcquire(t)
    /\ lock_' = lock_ \cup { t }
    /\ thr' = [ thr EXCEPT ![t].pc = "pq_replace" ]
    /\ UNCHANGED << serial, dcheck_is_on, state_, next_op_id_index_, cmeta_, disk,
                    flush_calls, log_, appends, submitted, rounds, ret, crashed, assigned,
                    sizeOrder, durable, shutdowns, calls, start_passed, boot_index >>

\* Fault: a failed flush puts the old quorum back in memory.
QuorumRolledBackOnFailure(old, new, flushed) == IF flushed THEN new ELSE old

\* Lines 169-170: CopyFrom(quorum) comes before Flush() and is not undone.
QuorumAfterFlush(old, new, flushed) == new

\* Lines 164-170: the monotonicity CHECK, CopyFrom(quorum), cmeta_->Flush().
PersistReplace(t, ok) ==
    /\ Alive /\ thr[t].pc = "pq_replace"
    /\ IF SeqnoMonotonic(cmeta_, thr[t].q)
       THEN /\ cmeta_' = QuorumAfterFlush(cmeta_, thr[t].q, ok)
            /\ flush_calls' = flush_calls + 1
            /\ disk' = IF ok THEN thr[t].q ELSE disk
            /\ thr' = [ thr EXCEPT ![t] = Idle ]
            /\ ret' = Returned("PersistQuorum", 0, IF ok THEN "OK" ELSE "FlushError")
            /\ lock_' = Release(t)
            /\ crashed' = crashed
       ELSE /\ crashed' = "CHECK_LT(committed seqno, quorum.seqno())"
            /\ UNCHANGED << cmeta_, flush_calls, disk, thr, ret, lock_ >>
    /\ UNCHANGED << serial, dcheck_is_on, state_, next_op_id_index_, log_, appends,
                    submitted, rounds, assigned, sizeOrder, durable, shutdowns, calls,
                    start_passed, boot_index >>

(* ------------------- role, Quorum, Update, RequestVote, Shutdown ------- *)

Roles == { "LEADER", "FOLLOWER" }

\* Line 107: committed_quorum().peers().begin()->role().
RoleOf(q) == q.peers[1]

\* Lines 105-108: role(), the whole body under the lock_guard.  With no peer
\* begin() is end() and the dereference is undefined: the call faults (segv),
\* or returns whatever role the bytes there read as.
RoleCall(t, any, segv) ==
    /\ Alive /\ FirstIdle(t)
    /\ calls < CallBudget
    /\ CanAcquire(t)
    /\ calls' = calls + 1
    /\ IF cmeta_.peers = <<>>
       THEN IF segv
            THEN crashed' = "end() of peers dereferenced" /\ ret' = ret
            ELSE crashed' = crashed /\ ret' = Returned("role", 0, any)
       ELSE crashed' = crashed /\ ret' = Returned("role", 0, RoleOf(cmeta_))
    /\ UNCHANGED << serial, dcheck_is_on, state_, next_op_id_index_, lock_, cmeta_, disk,
                    flush_calls, log_, appends, submitted, rounds, thr, assigned,
                    sizeOrder, durable, shutdowns, start_passed, boot_index >>

\* Lines 154-157: Quorum(), a copy of the committed quorum taken under the
\* lock_guard.
QuorumCall(t) ==
    /\ Alive /\ FirstIdle(t)
    /\ calls < CallBudget
    /\ CanAcquire(t)
    /\ calls' = calls + 1
    /\ ret' = [ Returned("Quorum", 0, "OK") EXCEPT !.value = cmeta_ ]
    /\ UNCHANGED << serial, dcheck_is_on, state_, next_op_id_index_, lock_, cmeta_, disk,
                    flush_calls, log_, appends, submitted, rounds, thr, crashed, assigned,
                    sizeOrder, durable, shutdowns, start_passed, boot_index >>

\* Fault: Update is treated as done.
UpdateAccepted == "OK"

\* Line 112: Status::NotSupported(...).
UpdateStatus == "NotSupported"

\* Lines 110-113: Update().  No lock, no field of the engine is touched.
UpdateCall(t) ==
    /\ Alive /\ FirstIdle(t)
    /\ calls < CallBudget
    /\ calls' = calls + 1
    /\ ret' = Returned("Update", 0, UpdateStatus)
    /\ UNCHANGED << serial, dcheck_is_on, state_, next_op_id_index_, lock_, cmeta_, disk,
                    flush_calls, log_, appends, submitted, rounds, thr, crashed, assigned,
                    sizeOrder, durable, shutdowns, start_passed, boot_index >>

\* Line 117: Status::NotSupported(...).
RequestVoteStatus == "NotSupported"

\* Lines 115-118: RequestVote().
RequestVoteCall(t) ==
    /\ Alive /\ FirstIdle(t)
    /\ calls < CallBudget
    /\ calls' = calls + 1
    /\ ret' = Returned("RequestVote", 0, RequestVoteStatus)
    /\ UNCHANGED << serial, dcheck_is_on, state_, next_op_id_index_, lock_, cmeta_, disk,
                    flush_calls, log_, appends, submitted, rounds, thr, crashed, assigned,
                    sizeOrder, durable, shutdowns, start_passed, boot_index >>

\* Fault: Shutdown takes the engine back to its initial lifecycle state.
ShutdownResetsState(s) == "kInitializing"

\* Lines 173-175: the body is one VLOG statement; state_ is not assigned.
StateAfterShutdown(s) == s

\* Lines 173-175: Shutdown(), a void call.
ShutdownCall(t) ==
    /\ Alive /\ FirstIdle(t)
    /\ calls < CallBudget
    /\ calls' = calls + 1
    /\ shutdowns' = shutdowns + 1
    /\ state_' = StateAfterShutdown(state_)
    /\ UNCHANGED << serial, dcheck_is_on, next_op_id_index_, lock_, cmeta_, disk,
                    flush_calls, log_, appends, submitted, rounds, thr, ret, crashed,
                    assigned, sizeOrder, durable, start_passed, boot_index >>

(* ------------------------------ the Log --------------------------------- *)

\* The Log runs the callback of the next accepted append once it is durable.
\* A callback bound to no object faults when it is run.
LogDurable ==
    /\ Alive /\ durable < Len(appends)
    /\ durable' = durable + 1
    /\ crashed' = IF appends[durable + 1].clbk = "null" THEN "null callback invoked"
                  ELSE crashed
    /\ UNCHANGED << serial, dcheck_is_on, state_, next_op_id_index_, lock_, cmeta_, disk,
                    flush_calls, log_, appends, submitted, rounds, thr, ret, assigned,
                    sizeOrder, shutdowns, calls, start_passed, boot_index >>

(* ------------------------------- Next ----------------------------------- *)

Next ==
    \/ \E t \in Threads, n \in 0 .. MaxLastIndex : StartCall(t, n)
    \/ \E t \in Threads : StartAcquire(t)
    \/ \E t \in Threads : StartVerify(t)
    \/ \E t \in Threads, ok \in BOOLEAN : StartSubmit(t, ok)
    \/ \E t \in Threads, r \in Rounds : ReplicateCall(t, r)
    \/ \E t \in Threads : ReplicateAcquire(t)
    \/ \E t \in Threads : ReplicateAssign(t)
    \/ \E t \in Threads, ok \in BOOLEAN : ReplicateReserve(t, ok)
    \/ \E t \in Threads, ok \in BOOLEAN : ReplicateAppend(t, ok)
    \/ \E t \in Threads, r \in Rounds : CommitCall(t, r)
    \/ \E t \in Threads : CommitAcquire(t)
    \/ \E t \in Threads, ok \in BOOLEAN : CommitReserve(t, ok)
    \/ \E t \in Threads, ok \in BOOLEAN, segv \in BOOLEAN : CommitAppend(t, ok, segv)
    \/ \E t \in Threads, q \in Quorums : PersistCall(t, q)
    \/ \E t \in Threads : PersistAcquire(t)
    \/ \E t \in Threads, ok \in BOOLEAN : PersistReplace(t, ok)
    \/ \E t \in Threads, any \in Roles, segv \in BOOLEAN : RoleCall(t, any, segv)
    \/ \E t \in Threads : QuorumCall(t)
    \/ \E t \in Threads : UpdateCall(t)
    \/ \E t \in Threads : RequestVoteCall(t)
    \/ \E t \in Threads : ShutdownCall(t)
    \/ LogDurable

Spec == Init /\ [][Next]_vars

\* The write path alone: Start, Replicate, Commit and the Log.
NextWritePath ==
    \/ \E t \in Threads, n \in 0 .. MaxLastIndex : StartCall(t, n)
    \/ \E t \in Threads : StartAcquire(t)
    \/ \E t \in Threads : StartVerify(t)
    \/ \E t \in Threads, ok \in BOOLEAN : StartSubmit(t, ok)
    \/ \E t \in Threads, r \in Rounds : ReplicateCall(t, r)
    \/ \E t \in Threads : ReplicateAcquire(t)
    \/ \E t \in Threads : ReplicateAssign(t)
    \/ \E t \in Threads, ok \in BOOLEAN : ReplicateReserve(t, ok)
    \/ \E t \in Threads, ok \in BOOLEAN : ReplicateAppend(t, ok)
    \/ \E t \in Threads, r \in Rounds : CommitCall(t, r)
    \/ \E t \in Threads : CommitAcquire(t)
    \/ \E t \in Threads, ok \in BOOLEAN : CommitReserve(t, ok)
    \/ \E t \in Threads, ok \in BOOLEAN, segv \in BOOLEAN : CommitAppend(t, ok, segv)
    \/ LogDurable

SpecSerial == InitSerial /\ [][NextWritePath]_vars

(* ------------------------------ claims ---------------------------------- *)

IsReplicate(e) == e.op = "REPLICATE"

IsStarted(e) == e.started

\* The op-id assignments made on a started engine, in lock-entry order.
StartedAssigned == SelectSeq(assigned, IsStarted)

\* The Reserve calls for REPLICATE operations, in the order the Log saw them.
ReplicateReserves == SelectSeq(log_, IsReplicate)

\* How many accepted appends carry round r's commit callback; how many of
\* those callbacks the Log has run.
CommitHandOvers(r) ==
    { i \in 1 .. Len(appends) : appends[i].clbk = "commit" /\ appends[i].round = r }

CommitFired(r) == { i \in CommitHandOvers(r) : i <= durable }

\* C1: on a started engine the indices assigned to the rounds are strictly
\* increasing in the order the Replicate calls entered the ordering lock, so no
\* two rounds receive the same index.
C1_IndicesStrictlyIncreasing ==
    /\ \A i, j \in 1 .. Len(StartedAssigned) :
         i < j => StartedAssigned[i].index < StartedAssigned[j].index
    /\ \A r1, r2 \in Rounds :
         ( /\ r1 # r2
           /\ \E i \in 1 .. Len(StartedAssigned) : StartedAssigned[i].round = r1
           /\ \E i \in 1 .. Len(StartedAssigned) : StartedAssigned[i].round = r2 )
         => rounds[r1].index # rounds[r2].index

\* C1 witness: two concurrent Replicate calls on a started engine have both
\* been assigned an index.
C1_Witness ==
    /\ Len(StartedAssigned) = 2
    /\ StartedAssigned[1].round # StartedAssigned[2].round

C3_KthCallGetsNPlusK ==
    \A k \in 1 .. Len(StartedAssigned) :
        /\ StartedAssigned[k].index = boot_index + k
        /\ StartedAssigned[k].term = 0
        /\ rounds[StartedAssigned[k].round].index = boot_index + k
        /\ rounds[StartedAssigned[k].round].has_term
        /\ rounds[StartedAssigned[k].round].term = 0

\* C3 witness: a start from a non-zero last known index, and two assignments.
C3_Witness ==
    /\ state_ = "kRunning" /\ boot_index > 0
    /\ Len(StartedAssigned) = 2

\* C4: every replacement of the committed quorum, and every PersistQuorum
\* that returns OK, strictly increases the committed sequence number.
C4_SeqnoStrictlyIncreases ==
    [][ ( \/ cmeta_' # cmeta_
          \/ \E t \in Threads, ok \in BOOLEAN :
               PersistReplace(t, ok) /\ crashed' = "none" )
        => cmeta_'.seqno > cmeta_.seqno ]_vars

\* C4 witness: one PersistQuorum was accepted, and a later one with a sequence
\* number that is not greater was stopped by the monotonicity check.
C4_Witness ==
    /\ ret = Returned("PersistQuorum", 0, "OK")
    /\ cmeta_.seqno > 0
    /\ crashed = "CHECK_LT(committed seqno, quorum.seqno())"

\* C5: PersistQuorum with a structurally invalid quorum returns InvalidQuorum
\* at once: the in-memory quorum, the durable record, the number of flushes and
\* the lock are as before the call.
C5_InvalidQuorumChangesNothing ==
    [][ \A t \in Threads, q \in Quorums :
          (PersistCall(t, q) /\ ~VerifyQuorum(q))
          => /\ ret' = Returned("PersistQuorum", 0, "InvalidQuorum")
             /\ thr'[t].pc = "idle"
             /\ cmeta_' = cmeta_ /\ disk' = disk /\ flush_calls' = flush_calls
             /\ lock_' = lock_ /\ crashed' = crashed ]_vars

\* C5 witness: a PersistQuorum call has returned InvalidQuorum.
C5_Witness ==
    /\ ret = Returned("PersistQuorum", 0, "InvalidQuorum")
    /\ flush_calls = 0 /\ disk = cmeta_

\* C6 as claimed: every Start call after the first is rejected, so at most one
\* Start call passes the lifecycle check, and at most one quorum is submitted.
C6_SecondStartAlwaysRejected ==
    /\ start_passed <= 1
    /\ Len(submitted) <= 1

\* C6 amended: once a Start call has set the state RUNNING no later Start call
\* gets past the lifecycle check, and at most one quorum is ever submitted.
C6_StartAfterRunningRejected ==
    /\ Len(submitted) <= 1
    /\ \A t \in Threads :
         /\ thr[t].pc \in { "start_lock", "start_verify" } => state_ = "kInitializing"
         /\ thr[t].pc = "start_submit" => (state_ = "kRunning" /\ submitted = <<>>)
    /\ submitted # <<>> => state_ = "kRunning"

\* C6 witness: a Start call made after a Start that submitted its quorum was
\* stopped by the lifecycle check.
C6_Witness ==
    /\ crashed = "CHECK_EQ(state_, kInitializing)"
    /\ Len(submitted) = 1

\* C7 as claimed: while the state is UNINITIALIZED no round has been assigned
\* an index and the Log has seen no Reserve call.
C7_NothingBeforeStart ==
    state_ = "kInitializing"
    => ( /\ log_ = <<>>
         /\ assigned = <<>>
         /\ \A r \in Rounds : ~rounds[r].has_index )

\* C8: once Commit is past its first lines the round no longer holds its commit
\* callback: while the call is in progress, whenever the Log has seen a COMMIT
\* Reserve for the round, and after Commit has returned with any status.  The
\* callback is handed to the Log at most once, hence run at most once.
C8_CommitCallbackReleased ==
    \A r \in Rounds :
        /\ (\E t \in Threads : InOp(t, "Commit") /\ thr[t].round = r)
             => ~rounds[r].commit_callback
        /\ (\E i \in 1 .. Len(log_) : log_[i].op = "COMMIT" /\ log_[i].round = r)
             => ~rounds[r].commit_callback
        /\ (ret.op = "Commit" /\ ret.round = r) => ~rounds[r].commit_callback
        /\ Cardinality(CommitHandOvers(r)) <= 1
        /\ Cardinality(CommitFired(r)) <= 1

\* C8 witness: Commit has returned the Log's error and the round is left
\* without its commit callback.
C8_Witness ==
    /\ ret.op = "Commit" /\ ret.status = "LogError"
    /\ ~rounds[ret.round].commit_callback
    /\ CommitHandOvers(ret.round) = {}

CommitAccepted == { appends[i].round : i \in { k \in 1 .. Len(appends) : appends[k].op = "COMMIT" } }

\* C11 as claimed: the index an accepted COMMIT refers to is strictly less than
\* the index assigned to every round whose Replicate call was issued after
\* that Commit call.
C11_CommitIndexBelowLaterReplicates ==
    \A x \in CommitAccepted, r \in Rounds :
        (rounds[r].has_index /\ x \in rounds[r].after_commits)
        => rounds[x].index < rounds[r].index

\* The positions in `assigned` of the rounds whose REPLICATE Reserve failed.
FailedReserves ==
    { i \in 1 .. Len(assigned) :
        \E k \in 1 .. Len(log_) :
            /\ log_[k].op = "REPLICATE" /\ log_[k].round = assigned[i].round
            /\ ~log_[k].ok }

\* C12 as claimed: after a Reserve failure in Replicate nothing of the round
\* reaches AsyncAppend, the round keeps its replicate callback, and every later
\* assignment gets a strictly greater index than the consumed one and than the
\* assignments before it.
C12_FailedReserveLeavesGap ==
    \A i \in FailedReserves :
        /\ \A k \in 1 .. Len(appends) : appends[k].round # assigned[i].round
        /\ rounds[assigned[i].round].replicate_callback
        /\ ~rounds[assigned[i].round].scheduled
        /\ \A j \in 1 .. Len(assigned) :
             i < j => /\ assigned[i].index < assigned[j].index
                      /\ \A m \in 1 .. j - 1 : assigned[m].index < assigned[j].index

\* C13: a PersistQuorum step that returns the flush failure has replaced the
\* committed quorum in memory by its argument (a greater sequence number) and
\* left the durable record alone; Quorum() returns the in-memory quorum; and a
\* PersistQuorum whose sequence number is not greater than the committed one
\* never replaces anything or returns: the monotonicity check ends the process.
C13_FlushFailureKeepsNewQuorum ==
    /\ [](ret.op = "Quorum" => ret.value = cmeta_)
    /\ [](ret = Returned("PersistQuorum", 0, "FlushError") => cmeta_.seqno > disk.seqno)
    /\ [](crashed = "CHECK_LT(committed seqno, quorum.seqno())"
           => \E t \in Threads : /\ thr[t].pc = "pq_replace" /\ t \in lock_
                                  /\ thr[t].q.seqno <= cmeta_.seqno)
    /\ [][ \A t \in Threads :
             /\ ( /\ thr[t].pc = "pq_replace" /\ thr'[t].pc = "idle"
                  /\ ret' = Returned("PersistQuorum", 0, "FlushError") )
                => ( /\ cmeta_' = thr[t].q
                     /\ cmeta_'.seqno > cmeta_.seqno
                     /\ disk' = disk )
             /\ (thr[t].pc = "pq_replace" /\ thr[t].q.seqno <= cmeta_.seqno)
                => ( /\ cmeta_' = cmeta_ /\ disk' = disk /\ thr'[t] = thr[t]
                     /\ lock_' = lock_ /\ flush_calls' = flush_calls )
       ]_vars

\* C13 witness: a flush failed, Quorum() then returned the new quorum, which
\* the durable record does not hold, and a PersistQuorum with the same sequence
\* number was stopped by the monotonicity check.
C13_Witness ==
    /\ ret.op = "Quorum" /\ ret.value = cmeta_
    /\ cmeta_.seqno > disk.seqno
    /\ crashed = "CHECK_LT(committed seqno, quorum.seqno())"
    /\ \E t \in Threads : thr[t].pc = "pq_replace" /\ thr[t].q.seqno = cmeta_.seqno

\* C14 as claimed: Start never ends the process over the committed quorum it
\* finds, a non-local one included: it returns InvalidQuorum, and whatever it
\* submits to the Transaction Factory comes from a well-formed quorum.
C14_MalformedQuorumIsRecoverable ==
    /\ crashed # "CHECK(initial_quorum.local())"
    /\ \A i \in 1 .. Len(submitted) : submitted[i].local /\ Len(submitted[i].peers) = 1
    /\ \A t \in Threads : thr[t].pc = "start_submit" => VerifyQuorum(cmeta_)

\* C15 as claimed: when Start has returned success, and when a PersistQuorum
\* has been accepted on the started engine, the committed quorum has exactly
\* one peer, with role LEADER, and that role is what role() returns.
C15_AlwaysLeader ==
    /\ ret = Returned("Start", 0, "OK") => cmeta_.peers = << "LEADER" >>
    /\ (ret = Returned("PersistQuorum", 0, "OK") /\ state_ = "kRunning")
       => cmeta_.peers = << "LEADER" >>
    /\ (ret.op = "role" /\ state_ = "kRunning" /\ Len(cmeta_.peers) = 1)
       => ret.status = RoleOf(cmeta_)

\* C16: Update and RequestVote can return whenever their caller is free to
\* call, whoever holds the ordering lock and whatever the lifecycle state; the
\* status is NotSupported; and the step leaves the state, the counter, the
\* committed quorum, the durable record, the lock and the Log as they were.
C16_UpdateAndVoteNotSupported ==
    /\ [](\A t \in Threads :
            (Alive /\ FirstIdle(t) /\ calls < CallBudget)
            => (ENABLED UpdateCall(t) /\ ENABLED RequestVoteCall(t)))
    /\ [](ret.op \in { "Update", "RequestVote" } => ret.status = "NotSupported")
    /\ [][ (\E t \in Threads : UpdateCall(t) \/ RequestVoteCall(t))
           => ( /\ ret'.op \in { "Update", "RequestVote" }
                /\ ret'.status = "NotSupported"
                /\ UNCHANGED << state_, next_op_id_index_, cmeta_, disk, flush_calls,
                                lock_, log_, appends, submitted, rounds, thr,
                                crashed, shutdowns >> )
       ]_vars

\* C16 witness: Update has returned NotSupported after a Shutdown call, on a
\* RUNNING engine, while another caller holds the ordering lock.
C16_Witness ==
    /\ ret = Returned("Update", 0, "NotSupported")
    /\ shutdowns > 0 /\ state_ = "kRunning"
    /\ lock_ # {}

\* C17: Shutdown can be called whenever its caller is free to call, whoever
\* holds the ordering lock; the call leaves the lifecycle state, the counter,
\* the committed quorum, the durable record and everything else of the engine
\* as they were; and no step takes a RUNNING engine out of RUNNING.
C17_ShutdownChangesNothing ==
    /\ [](\A t \in Threads :
            (Alive /\ FirstIdle(t) /\ calls < CallBudget) => ENABLED ShutdownCall(t))
    /\ [][ (\E t \in Threads : ShutdownCall(t))
           => UNCHANGED << state_, next_op_id_index_, cmeta_, disk, flush_calls, lock_,
                           log_, appends, submitted, rounds, thr, ret, crashed >>
       ]_vars
    /\ [][ state_ = "kRunning" => state_' = "kRunning" ]_vars

\* C17 witness: Shutdown has been called twice, the second time on a RUNNING
\* engine while another caller holds the ordering lock.
C17_Witness ==
    /\ shutdowns >= 2
    /\ state_ = "kRunning"
    /\ lock_ # {}
    /\ crashed = "none"

\* Positions of a call at which its thread is inside a lock_guard scope of
\* Replicate or Commit; of Start; of PersistQuorum.
WritePathLocked == { "rep_assign", "rep_reserve", "com_reserve" }

StartLocked == { "start_verify", "start_submit" }

PersistLocked == { "pq_replace" }

\* C18 as claimed: one lock, at most one holder; every Reserve call is made
\* with the lock held and no AsyncAppend call is; the lock is held only across
\* op-id assignment, the Reserve call and the read or replacement of the
\* committed quorum, so the metadata flush and the submission to the
\* Transaction Factory are made without it.
C18_LockOnlyAroundAssignAndReserve ==
    /\ [](Cardinality(lock_) <= 1)
    /\ [](\A i \in 1 .. Len(log_) : log_[i].locked)
    /\ [](\A i \in 1 .. Len(appends) : ~appends[i].locked)
    /\ [](\A t \in lock_ :
            thr[t].pc \in WritePathLocked \cup { "start_verify" } \cup PersistLocked)
    /\ [][ flush_calls' # flush_calls => lock_ = {} ]_vars
    /\ [][ submitted' # submitted => lock_ = {} ]_vars

\* C18 amended: one lock, at most one holder; every Reserve call, every change
\* of the counter and every replacement of the committed quorum is made by the
\* holder of the lock, and role() and Quorum() read only when they can take it;
\* no AsyncAppend call and no size computation is made with the lock held; in
\* Replicate and Commit the lock is held only across op-id assignment and the
\* Reserve call, while Start holds it through the submission to the
\* Transaction Factory and PersistQuorum through the metadata flush.
C18_LockDiscipline ==
    /\ [](Cardinality(lock_) <= 1)
    /\ [](\A i \in 1 .. Len(log_) : log_[i].locked)
    /\ [](\A i \in 1 .. Len(appends) : ~appends[i].locked)
    /\ [](\A t \in Threads :
            t \in lock_ <=> thr[t].pc \in WritePathLocked \cup StartLocked \cup PersistLocked)
    /\ [][ (next_op_id_index_' # next_op_id_index_ \/ cmeta_' # cmeta_)
           => \E t \in lock_ : thr'[t] # thr[t] ]_vars
    /\ [][ (flush_calls' # flush_calls \/ submitted' # submitted)
           => \E t \in lock_ : thr'[t] # thr[t] /\ t \notin lock_' ]_vars
    /\ [][ (sizeOrder' # sizeOrder \/ CommitIssued' # CommitIssued)
           => \E t \in Threads : thr'[t] # thr[t] /\ t \notin lock_ /\ t \notin lock_' ]_vars
    /\ [][ (\E t \in Threads, any \in Roles, segv \in BOOLEAN :
              QuorumCall(t) \/ RoleCall(t, any, segv)) => lock_ = {} ]_vars

\* C18 witness: one caller is between Reserve and AsyncAppend, outside the
\* lock, while another holds the lock between its op-id assignment and its
\* Reserve call.
C18_Witness ==
    \E t, u \in Threads :
        /\ thr[t].pc = "rep_append" /\ t \notin lock_
        /\ thr[u].pc = "rep_reserve" /\ lock_ = { u }
        /\ \E i \in 1 .. Len(log_) : log_[i].round = thr[t].round /\ log_[i].locked

\* The places round r's commit callback can be: a local commit_clbk of a
\* Commit call in progress.
CommitCallbackHeld(r) ==
    { t \in Threads : thr[t].pc # "idle" /\ thr[t].round = r /\ thr[t].clbk = "commit" }

\* Round r's commit callback is gone: not in the round, not in a Commit call,
\* not with the Log.
CommitCallbackDropped(r) ==
    /\ ~rounds[r].commit_callback
    /\ CommitCallbackHeld(r) = {}
    /\ CommitHandOvers(r) = {}

\* C19: the Log runs a round's commit callback only after a Commit of the
\* round returned with the append accepted; a Commit that holds the callback
\* and returns the Log's error, from Reserve or from AsyncAppend, leaves the
\* callback dropped; a dropped callback stays dropped, so the Log never runs
\* it and every later Commit of the round finds none.
C19_FailedCommitDropsCallback ==
    /\ [](\A r \in Rounds :
            /\ Cardinality(CommitCallbackHeld(r)) <= 1
            /\ CommitFired(r) # {} => ~rounds[r].commit_callback
            /\ (rounds[r].commit_callback \/ CommitCallbackHeld(r) # {})
               => CommitHandOvers(r) = {})
    /\ [][ \A t \in Threads, r \in Rounds :
             ( /\ thr[t].op = "Commit" /\ thr[t].round = r /\ thr[t].clbk = "commit"
               /\ thr'[t].pc = "idle"
               /\ ret' = Returned("Commit", r, "LogError") )
             => ( /\ appends' = appends
                  /\ CommitCallbackDropped(r)' ) ]_vars
    /\ [][ \A r \in Rounds :
             CommitCallbackDropped(r)
             => ( /\ CommitCallbackDropped(r)'
                  /\ \A t \in Threads :
                       (thr'[t].op = "Commit" /\ thr'[t].round = r) => thr'[t].clbk = "null" )
       ]_vars

\* C19 witness: a Commit failed in the Log and the callback was dropped; a
\* retried Commit of the same round is under way with no callback.
C19_Witness ==
    \E t \in Threads :
        /\ thr[t].op = "Commit" /\ thr[t].clbk = "null"
        /\ ret = Returned("Commit", thr[t].round, "LogError")
        /\ CommitCallbackDropped(thr[t].round)
        /\ CommitFired(thr[t].round) = {}

\* C20: a Start that returns InvalidQuorum leaves the state UNINITIALIZED, the
\* counter as it was and nothing submitted, so Start can be called again; a
\* Start whose submission is rejected returns that error with the state
\* RUNNING and the counter at last known index + 1, so Replicate passes its
\* lifecycle check and another Start does not; and no step of Start changes
\* the committed quorum, in memory or on disk.
C20_StartFailureEffects ==
    /\ [](ret = Returned("Start", 0, "InvalidQuorum")
          => (state_ = "kInitializing" /\ submitted = <<>> /\ StartPre))
    /\ [](ret = Returned("Start", 0, "SubmitError")
          => (state_ = "kRunning" /\ Len(submitted) = 1 /\ ReplicatePre /\ ~StartPre))
    /\ [][ \A t \in Threads :
             (thr[t].op = "Start" /\ thr'[t].pc = "idle")
             => /\ ret'.op = "Start"
                /\ ret'.status = "InvalidQuorum"
                   => ( /\ state_' = "kInitializing" /\ state_ = "kInitializing"
                        /\ next_op_id_index_' = next_op_id_index_
                        /\ submitted' = submitted /\ submitted = <<>> )
                /\ ret'.status \in { "SubmitError", "OK" }
                   => ( /\ state_' = "kRunning"
                        /\ next_op_id_index_' = thr[t].info + 1
                        /\ Len(submitted') = 1 )
       ]_vars
    /\ [][ ( \/ \E t \in Threads : thr[t].op = "Start" /\ thr'[t] # thr[t]
             \/ \E t \in Threads : thr[t].op # "Start" /\ thr'[t].op = "Start"
             \/ crashed' \in { "CHECK_EQ(state_, kInitializing)",
                               "CHECK(initial_quorum.local())" } )
           => (cmeta_' = cmeta_ /\ disk' = disk /\ flush_calls' = flush_calls) ]_vars

\* C20 witness: the Transaction Factory rejected the submission; Start returned
\* its error on an engine that is RUNNING, with the counter one past a non-zero
\* last known index and the committed quorum as constructed, and a Replicate
\* call has passed its lifecycle check on a build that checks it.
C20_Witness ==
    /\ ret = Returned("Start", 0, "SubmitError")
    /\ state_ = "kRunning" /\ boot_index > 0
    /\ next_op_id_index_ = boot_index + 1
    /\ cmeta_ \in InitialQuorums /\ disk = cmeta_
    /\ dcheck_is_on
    /\ \E t \in Threads : thr[t].op = "Replicate" /\ thr[t].pc = "rep_lock"

====
